---- MODULE Spec2Model ----
(***************************************************************************)
(* Model of algopy: the binary heaps of data_structures/heap.py, the       *)
(* snapshot-yielding traversals of algorithms/bfs_dfs.py and the           *)
(* shortest-path generator of algorithms/graphs.py.                        *)
(*                                                                         *)
(* Python lists are 0-indexed and accept negative indices; the heap        *)
(* operators below keep Python's indices and translate at the access.      *)
(* An Optional value is <<>> (None) or <<x>>.                              *)
(***************************************************************************)
EXTENDS Integers, Sequences, FiniteSets, TLC

VARIABLES
    kind,        \* "min" (MinHeap) or "max" (MaxHeap): the class of the heap object
    elements,    \* Heap.elements
    lastOp,      \* the last call the caller made on the heap or on a yielded snapshot
    callIndex,   \* index argument of that call
    ret,         \* Optional: what the last heap call returned
    err,         \* "none", or the exception the last call raised
    algo,        \* "bfs" or "dfs": which generator of bfs_dfs.py runs
    graph,       \* edges of the input graph: set of {u, v}
    start,       \* start argument
    visited,     \* bfs/dfs local: visited
    tree_edges,  \* bfs/dfs local: tree_edges
    frontier,    \* dfs local stack / bfs local fifo: sequence of <<node, Optional parent>>
    snaps,       \* the snapshots yielded so far, oldest first
    pc,          \* position of the running generator
    nodes,       \* graph.nodes of the dijkstra input graph
    weight,      \* edge weights of the dijkstra input graph: {u, v} -> weight
    A,           \* dijkstra local: A (node -> [cost, parent])
    S,           \* dijkstra local: S
    graph_edges, \* dijkstra local: graph_edges
    V_S          \* dijkstra local: V_S

heapVars == <<kind, elements, lastOp, callIndex, ret, err>>
travVars == <<algo, graph, start, visited, tree_edges, frontier>>
dijkVars == <<nodes, weight, A, S, V_S, graph_edges>>
vars == <<kind, elements, lastOp, callIndex, ret, err,
          algo, graph, start, visited, tree_edges, frontier, snaps, pc,
          nodes, weight, A, S, V_S, graph_edges>>

----------------------------------------------------------------------------
(* Bounds *)

MaxLen == 4          \* largest heap built when change_key is given valid positions
MaxLenAny == 3       \* largest heap built when change_key is given any index
MaxVal == 2          \* heap values range over 0..MaxVal
NumNodes == 4        \* bfs/dfs graphs have nodes 1..NumNodes
DNodes == 4          \* dijkstra graphs have nodes 1..n for some n <= DNodes
MaxEdges == 3        \* dijkstra graphs have at most MaxEdges edges

Items == {"a", "b"}
Values == 0..MaxVal

None == <<>>
Some(x) == <<x>>

----------------------------------------------------------------------------
(* heap.py *)

\* Python list indexing: position of index i in a list (negative counts from the end)
InRange(els, i) == -Len(els) <= i /\ i < Len(els)
Pos(els, i) == IF i < 0 THEN i + Len(els) + 1 ELSE i + 1
ValueAt(els, i) == els[Pos(els, i)].value
\* a swap that copies one way only: els[i] = els[j]; els[j] = els[i]
Swap_Overwrite(els, i, j) ==
    [els EXCEPT ![Pos(els, i)] = els[Pos(els, j)]]

\* els[i], els[j] = els[j], els[i]
Swap(els, i, j) ==
    [els EXCEPT ![Pos(els, i)] = els[Pos(els, j)], ![Pos(els, j)] = els[Pos(els, i)]]

\* Python truthiness of an Optional int: None and 0 are falsy
Truthy(opt) == opt # None /\ opt[1] # 0

\* outcome of a helper: the list as it leaves it, and whether IndexError was raised
Ok(els) == [els |-> els, raised |-> FALSE]
Raise(els) == [els |-> els, raised |-> TRUE]

GetParentIndex(els, index) ==
    IF els = <<>> THEN None
    ELSE IF index = 0 THEN None
    ELSE Some((index - 1) \div 2)

GetLeftIndex(els, index) ==
    IF els = <<>> THEN None
    ELSE LET l == 2 * index + 1 IN
         IF l >= Len(els) THEN None ELSE Some(l)

GetRightIndex(els, index) ==
    IF els = <<>> THEN None
    ELSE LET r == 2 * index + 2 IN
         IF r >= Len(els) THEN None ELSE Some(r)

\* MinHeap._heapify_up that leaves the new entry where it was appended
MinHeapifyUp_NoSwap(els, index) == Ok(els)

RECURSIVE MinHeapifyUp(_, _)
MinHeapifyUp(els, index) ==
    LET parent_index == GetParentIndex(els, index) IN
    IF parent_index = None THEN Ok(els)
    ELSE LET p == parent_index[1] IN
         IF ~InRange(els, p) \/ ~InRange(els, index) THEN Raise(els)
         ELSE IF ValueAt(els, p) <= ValueAt(els, index) THEN Ok(els)
         ELSE IF ValueAt(els, p) > ValueAt(els, index)
              THEN MinHeapifyUp(Swap(els, p, index), p)
              ELSE Ok(els)

\* MinHeap._heapify_down that compares with the left child only
RECURSIVE MinHeapifyDown_LeftOnly(_, _)
MinHeapifyDown_LeftOnly(els, index) ==
    LET left_index == GetLeftIndex(els, index) IN
    IF ~Truthy(left_index) THEN Ok(els)
    ELSE IF ~InRange(els, left_index[1]) THEN Raise(els)
    ELSE IF ValueAt(els, left_index[1]) < ValueAt(els, index)
         THEN MinHeapifyDown_LeftOnly(Swap(els, index, left_index[1]), left_index[1])
         ELSE Ok(els)

RECURSIVE MinHeapifyDown(_, _)
MinHeapifyDown(els, index) ==
    LET left_index == GetLeftIndex(els, index)
        right_index == GetRightIndex(els, index)
    IN
    IF ~Truthy(left_index) /\ ~Truthy(right_index) THEN Ok(els)
    ELSE IF Truthy(left_index) /\ ~InRange(els, left_index[1]) THEN Raise(els)
    ELSE LET s1 == IF Truthy(left_index)
                      /\ ValueAt(els, left_index[1]) < ValueAt(els, index)
                   THEN left_index[1] ELSE index
         IN
         IF Truthy(right_index) /\ ~InRange(els, right_index[1]) THEN Raise(els)
         ELSE LET smallest == IF Truthy(right_index)
                                 /\ ValueAt(els, right_index[1]) < ValueAt(els, s1)
                              THEN right_index[1] ELSE s1
              IN
              IF smallest # index
              THEN MinHeapifyDown(Swap(els, index, smallest), smallest)
              ELSE Ok(els)

RECURSIVE MaxHeapifyUp(_, _)
MaxHeapifyUp(els, index) ==
    LET parent_index == GetParentIndex(els, index) IN
    IF parent_index = None THEN Ok(els)
    ELSE LET p == parent_index[1] IN
         IF ~InRange(els, p) \/ ~InRange(els, index) THEN Raise(els)
         ELSE IF ValueAt(els, p) >= ValueAt(els, index) THEN Ok(els)
         ELSE IF ValueAt(els, p) < ValueAt(els, index)
              THEN MaxHeapifyUp(Swap(els, p, index), p)
              ELSE Ok(els)

RECURSIVE MaxHeapifyDown(_, _)
MaxHeapifyDown(els, index) ==
    LET left_index == GetLeftIndex(els, index)
        right_index == GetRightIndex(els, index)
    IN
    IF ~Truthy(left_index) /\ ~Truthy(right_index) THEN Ok(els)
    ELSE IF Truthy(left_index) /\ ~InRange(els, left_index[1]) THEN Raise(els)
    ELSE LET l1 == IF Truthy(left_index)
                      /\ ValueAt(els, left_index[1]) > ValueAt(els, index)
                   THEN left_index[1] ELSE index
         IN
         IF Truthy(right_index) /\ ~InRange(els, right_index[1]) THEN Raise(els)
         ELSE LET largest == IF Truthy(right_index)
                                /\ ValueAt(els, right_index[1]) > ValueAt(els, l1)
                             THEN right_index[1] ELSE l1
              IN
              IF largest # index
              THEN MaxHeapifyDown(Swap(els, index, largest), largest)
              ELSE Ok(els)

\* self._heapify_down / self._heapify_up as dispatched on the object's class
HeapifyDown(k, els, index) ==
    IF k = "min" THEN MinHeapifyDown(els, index) ELSE MaxHeapifyDown(els, index)

HeapifyUp(k, els, index) ==
    IF k = "min" THEN MinHeapifyUp(els, index) ELSE MaxHeapifyUp(els, index)

\* Heap.peek that answers with the last entry of the list
PeekResult_Last(els) == IF els # <<>> THEN Some(els[Len(els)]) ELSE None

\* Heap.peek: the value returned
PeekResult(els) == IF els # <<>> THEN Some(els[1]) ELSE None

\* Heap.pop: the value returned and the list afterwards
PopResult(els) == IF Len(els) < 1 THEN None ELSE Some(els[1])

PopElements(k, els) ==
    IF Len(els) < 1 THEN els
    ELSE IF Len(els) = 1 THEN <<>>
    ELSE LET last == els[Len(els)]
             shrunk == SubSeq(els, 1, Len(els) - 1)
         IN HeapifyDown(k, [shrunk EXCEPT ![1] = last], 0).els

\* MinHeap.insert / MaxHeap.insert
MinInsertElements(els, item, value) ==
    LET appended == Append(els, [item |-> item, value |-> value])
    IN MinHeapifyUp(appended, Len(appended) - 1).els

MaxInsertElements(els, item, value) ==
    LET appended == Append(els, [item |-> item, value |-> value])
    IN MaxHeapifyUp(appended, Len(appended) - 1).els

InsertElements(k, els, item, value) ==
    IF k = "min" THEN MinInsertElements(els, item, value)
    ELSE MaxInsertElements(els, item, value)

\* MinHeap.change_key / MaxHeap.change_key
MinChangeKey(els, index, new_val) ==
    IF els = <<>> \/ index >= Len(els) THEN Ok(els)
    ELSE IF ~InRange(els, index) THEN Raise(els)
    ELSE LET current_val == ValueAt(els, index)
             updated == [els EXCEPT ![Pos(els, index)].value = new_val]
         IN IF new_val < current_val
            THEN MinHeapifyUp(updated, index)
            ELSE MinHeapifyDown(updated, index)

MaxChangeKey(els, index, new_val) ==
    IF els = <<>> \/ index >= Len(els) THEN Ok(els)
    ELSE IF ~InRange(els, index) THEN Raise(els)
    ELSE LET current_val == ValueAt(els, index)
             updated == [els EXCEPT ![Pos(els, index)].value = new_val]
         IN IF new_val > current_val
            THEN MaxHeapifyUp(updated, index)
            ELSE MaxHeapifyDown(updated, index)

ChangeKeyOutcome(k, els, index, new_val) ==
    IF k = "min" THEN MinChangeKey(els, index, new_val)
    ELSE MaxChangeKey(els, index, new_val)

----------------------------------------------------------------------------
(* Heap operations as actions on one heap object *)

IdleTraversal ==
    /\ algo = "none" /\ graph = {} /\ start = 0 /\ visited = {}
    /\ tree_edges = <<>> /\ frontier = <<>>

IdleDijkstra ==
    /\ nodes = {} /\ weight = <<>> /\ A = <<>> /\ S = {} /\ V_S = {} /\ graph_edges = <<>>

HeapInit ==
    /\ kind \in {"min", "max"}
    /\ elements = <<>>
    /\ lastOp = "init" /\ callIndex = 0
    /\ ret = None /\ err = "none"
    /\ IdleTraversal /\ IdleDijkstra
    /\ snaps = <<>> /\ pc = "heap"

HeapFrame == UNCHANGED <<kind, algo, graph, start, visited, tree_edges, frontier,
                         snaps, pc, nodes, weight, A, S, V_S, graph_edges>>

Insert(item, value) ==
    /\ pc = "heap"
    /\ Len(elements) < MaxLen
    /\ elements' = InsertElements(kind, elements, item, value)
    /\ lastOp' = "insert" /\ callIndex' = 0
    /\ ret' = None /\ err' = "none"
    /\ HeapFrame

Pop ==
    /\ pc = "heap"
    /\ ret' = PopResult(elements)
    /\ elements' = PopElements(kind, elements)
    /\ lastOp' = "pop" /\ callIndex' = 0
    /\ err' = "none"
    /\ HeapFrame

Peek ==
    /\ pc = "heap"
    /\ ret' = PeekResult(elements)
    /\ elements' = elements
    /\ lastOp' = "peek" /\ callIndex' = 0
    /\ err' = "none"
    /\ HeapFrame

ChangeKey(index, new_val) ==
    /\ pc = "heap"
    /\ LET out == ChangeKeyOutcome(kind, elements, index, new_val) IN
       /\ elements' = out.els
       /\ err' = IF out.raised THEN "IndexError" ELSE "none"
    /\ lastOp' = "change_key" /\ callIndex' = index
    /\ ret' = None
    /\ HeapFrame

InsertAny(bound) ==
    \E item \in Items, value \in Values :
        Len(elements) < bound /\ Insert(item, value)

\* change_key called with a position of the heap
ChangeKeyValid ==
    \E index \in 0..(Len(elements) - 1), new_val \in Values : ChangeKey(index, new_val)

\* change_key called with any integer index, in range or not
ChangeKeyAny ==
    \E index \in (-(MaxLenAny + 1))..(MaxLenAny + 1), new_val \in Values :
        ChangeKey(index, new_val)

Next ==
    \/ InsertAny(MaxLen)
    \/ Pop
    \/ Peek
    \/ ChangeKeyValid

Spec == HeapInit /\ [][Next]_vars

NextAnyIndex ==
    \/ InsertAny(MaxLenAny)
    \/ Pop
    \/ Peek
    \/ ChangeKeyAny

SpecAnyIndex == HeapInit /\ [][NextAnyIndex]_vars

----------------------------------------------------------------------------
(* bfs_dfs.py *)

Nodes == 1..NumNodes
AllEdges == {{u, v} : u \in Nodes, v \in Nodes} \ {{u} : u \in Nodes}

\* graph.neighbors(node)
Neighbors(g, node) == {m \in Nodes : {node, m} \in g}

\* sorted(xs, reverse=True)
RECURSIVE SortedReverse(_)
SortedReverse(xs) ==
    IF xs = {} THEN <<>>
    ELSE LET m == CHOOSE x \in xs : \A y \in xs : y <= x
         IN <<m>> \o SortedReverse(xs \ {m})

\* the loop appending (neighbor, neighbor) in place of (neighbor, node)
RECURSIVE PushNeighbors_SelfParent(_, _, _)
PushNeighbors_SelfParent(order, vis, node) ==
    IF order = <<>> THEN <<>>
    ELSE (IF Head(order) \notin vis THEN <<<<Head(order), Some(Head(order))>>>> ELSE <<>>)
         \o PushNeighbors_SelfParent(Tail(order), vis, node)

\* the entries appended by the loop over sorted(graph.neighbors(node), reverse=True)
RECURSIVE PushNeighbors(_, _, _)
PushNeighbors(order, vis, node) ==
    IF order = <<>> THEN <<>>
    ELSE (IF Head(order) \notin vis THEN <<<<Head(order), Some(node)>>>> ELSE <<>>)
         \o PushNeighbors(Tail(order), vis, node)

\* the loop body recording the tree edge as (child, parent)
Visit_ReversedEdge(g, vis, te, entry, rest) ==
    LET node == entry[1]
        parent == entry[2]
    IN
    IF node \in vis
    THEN [visited |-> vis, tree_edges |-> te, frontier |-> rest, yielded |-> None]
    ELSE LET vis2 == vis \cup {node}
             te2 == IF parent # None THEN Append(te, <<node, parent[1]>>) ELSE te
         IN [visited |-> vis2, tree_edges |-> te2,
             frontier |-> rest \o PushNeighbors(SortedReverse(Neighbors(g, node)), vis2, node),
             yielded |-> Some([visited |-> vis2, tree_edges |-> te2])]

\* the part of the loop body that bfs and dfs share, after the pop:
\* locals as they are when control is back at the loop test
Visit(g, vis, te, entry, rest) ==
    LET node == entry[1]
        parent == entry[2]
    IN
    IF node \in vis
    THEN [visited |-> vis, tree_edges |-> te, frontier |-> rest, yielded |-> None]
    ELSE LET vis2 == vis \cup {node}
             te2 == IF parent # None THEN Append(te, <<parent[1], node>>) ELSE te
         IN [visited |-> vis2, tree_edges |-> te2,
             frontier |-> rest \o PushNeighbors(SortedReverse(Neighbors(g, node)), vis2, node),
             yielded |-> Some([visited |-> vis2, tree_edges |-> te2])]

\* one iteration of dfs's while loop without the "if node in visited: continue" test
DfsIteration_NoVisitedCheck(g, vis, te, stack) ==
    LET entry == stack[Len(stack)]
        rest == SubSeq(stack, 1, Len(stack) - 1)
        node == entry[1]
        parent == entry[2]
        vis2 == vis \cup {node}
        te2 == IF parent # None THEN Append(te, <<parent[1], node>>) ELSE te
    IN [visited |-> vis2, tree_edges |-> te2,
        frontier |-> rest \o PushNeighbors(SortedReverse(Neighbors(g, node)), vis2, node),
        yielded |-> Some([visited |-> vis2, tree_edges |-> te2])]

\* one iteration of dfs's while loop: stack.pop() takes the last entry
DfsIteration(g, vis, te, stack) ==
    Visit(g, vis, te, stack[Len(stack)], SubSeq(stack, 1, Len(stack) - 1))

\* one iteration of bfs's while loop that takes the newest entry of the deque
BfsIteration_PopRight(g, vis, te, fifo) ==
    Visit(g, vis, te, fifo[Len(fifo)], SubSeq(fifo, 1, Len(fifo) - 1))

\* one iteration of bfs's while loop: fifo.popleft() takes the first entry
BfsIteration(g, vis, te, fifo) ==
    Visit(g, vis, te, Head(fifo), Tail(fifo))

IdleHeap ==
    /\ lastOp = "init" /\ callIndex = 0 /\ ret = None /\ err = "none"

\* the generator object has been created and its locals are initialised
TravInit ==
    /\ algo \in {"bfs", "dfs"}
    /\ graph \in SUBSET AllEdges
    /\ start \in Nodes
    /\ visited = {}
    /\ tree_edges = <<>>
    /\ frontier = <<<<start, None>>>>
    /\ snaps = <<>>
    /\ pc = "loop"
    /\ kind = "min" /\ elements = <<>> /\ IdleHeap
    /\ IdleDijkstra

TravFrame == UNCHANGED <<kind, elements, lastOp, callIndex, ret, err,
                         algo, graph, start, nodes, weight, A, S, V_S, graph_edges>>

TravApply(r) ==
    /\ visited' = r.visited
    /\ tree_edges' = r.tree_edges
    /\ frontier' = r.frontier
    /\ snaps' = IF r.yielded = None THEN snaps ELSE Append(snaps, r.yielded[1])
    /\ pc' = "loop"
    /\ TravFrame

DfsStep ==
    /\ algo = "dfs" /\ pc = "loop" /\ frontier # <<>>
    /\ TravApply(DfsIteration(graph, visited, tree_edges, frontier))

BfsStep ==
    /\ algo = "bfs" /\ pc = "loop" /\ frontier # <<>>
    /\ TravApply(BfsIteration(graph, visited, tree_edges, frontier))

\* the while test fails and the generator returns
TravFinish ==
    /\ algo \in {"bfs", "dfs"} /\ pc = "loop" /\ frontier = <<>>
    /\ pc' = "done"
    /\ UNCHANGED <<visited, tree_edges, frontier, snaps>>
    /\ TravFrame

NextTraversal ==
    \/ DfsStep
    \/ BfsStep
    \/ TravFinish

SpecTraversal == TravInit /\ [][NextTraversal]_vars

----------------------------------------------------------------------------
(* graphs.py *)

\* Edge weights and costs are counted in weight units; Scale units make 0.001,
\* the grid of round(w, 3).
Scale == 3
Inf == -1            \* float('inf'): only ever stored and compared for equality

DNodeSet == 1..DNodes
EdgesOver(ns) == {{u, v} : u \in ns, v \in ns} \ {{u} : u \in ns}
\* edge weights: 0, 0.001 (both on the grid of round(w, 3)) and a third of 0.001
Weights == {0, Scale \div 3, Scale}

\* graph.neighbors(node) and graph[u][v]['weight'] of the weighted graph
DNeighbors(w, node) == {m \in DNodeSet : {node, m} \in DOMAIN w}
EdgeWeight(w, u, v) == w[{u, v}]

\* the orders in which graph.neighbors may enumerate a set of neighbors
Orders(xs) == {q \in [1..Cardinality(xs) -> xs] : \A i, j \in DOMAIN q : q[i] = q[j] => i = j}

\* round(x, 3)
Round3(x) == ((2 * x + Scale) \div (2 * Scale)) * Scale

\* sorted(xs)
RECURSIVE Sorted(_)
Sorted(xs) ==
    IF xs = {} THEN <<>>
    ELSE LET m == CHOOSE x \in xs : \A y \in xs : x <= y
         IN <<m>> \o Sorted(xs \ {m})

\* graph_edges: the (u, v, weight) triples of the graph
RECURSIVE GraphEdges(_, _)
GraphEdges(w, es) ==
    IF es = {} THEN <<>>
    ELSE LET e == CHOOSE x \in es : \A y \in es :
                     \/ Sorted(x)[1] < Sorted(y)[1]
                     \/ Sorted(x)[1] = Sorted(y)[1] /\ Sorted(x)[2] <= Sorted(y)[2]
         IN <<<<Sorted(e)[1], Sorted(e)[2], w[e]>>>> \o GraphEdges(w, es \ {e})

\* the cost table when every node is given the template record itself, not a copy
InitialCosts_SharedTemplate(ns, s) ==
    [n \in ns |-> [node |-> CHOOSE m \in ns : \A k \in ns : k <= m,
                    cost |-> 0, parent |-> None]]

\* the cost table after initialisation
InitialCosts(ns, s) ==
    [n \in ns |-> [node |-> n, cost |-> IF n = s THEN 0 ELSE Inf, parent |-> None]]

\* the tuple yielded: (sorted(S), sorted(V_S), graph_edges, copy.deepcopy(A))
DijkstraSnapshot_Swapped(s, vs, edges, tbl) ==
    [explored |-> Sorted(vs), unexplored |-> Sorted(s), edges |-> edges, cost |-> tbl]

DijkstraSnapshot(s, vs, edges, tbl) ==
    [explored |-> Sorted(s), unexplored |-> Sorted(vs), edges |-> edges, cost |-> tbl]

\* the priority given to the edge (node, neighbor) as if it were the edge weight alone
EdgePriority_WeightOnly(tbl, node, edge_w) == edge_w

\* the priority given to the edge (node, neighbor): A[node]['cost'] + edge_w
EdgePriority(tbl, node, edge_w) == tbl[node].cost + edge_w

\* the loop "for neighbor in graph.neighbors(node): pq.insert(...)" over the
\* neighbors in the order given
RECURSIVE InsertEdges(_, _, _, _, _)
InsertEdges(els, w, tbl, node, order) ==
    IF order = <<>> THEN els
    ELSE InsertEdges(
             MinInsertElements(els, <<node, Head(order)>>,
                               EdgePriority(tbl, node, EdgeWeight(w, node, Head(order)))),
             w, tbl, node, Tail(order))

\* orientation of a popped edge that never treats the entry as stale
Orient_SelfParent(s, u, v) ==
    LET new_node == IF v \notin s THEN v ELSE u
    IN [stale |-> (u \in s /\ v \in s), new_node |-> new_node, parent |-> new_node]

\* orientation of a popped edge without the stale test
Orient_NoStaleCheck(s, u, v) ==
    LET new_node == IF v \notin s THEN v ELSE u
    IN [stale |-> FALSE, new_node |-> new_node,
        parent |-> IF new_node = v THEN u ELSE v]

\* orientation of a popped edge (u, v): stale if both ends are explored
Orient(s, u, v) ==
    LET new_node == IF v \notin s THEN v ELSE u
    IN [stale |-> (u \in s /\ v \in s), new_node |-> new_node,
        parent |-> IF new_node = v THEN u ELSE v]

\* start arguments: 0 is not a node of the graph. Every (graph, start) with
\* start in the graph is a relabelling of one with start = 1, and dijkstra
\* compares node identifiers only in sorted(S) and sorted(V_S) of the tuples
\* it yields.
StartNodes == {0, 1}

\* the generator object has been created; none of its body has run
DijkstraInit ==
    /\ algo = "dijkstra"
    /\ \E n \in DNodeSet : nodes = 1..n
    /\ \E es \in SUBSET EdgesOver(nodes) :
          Cardinality(es) <= MaxEdges /\ weight \in [es -> Weights]
    /\ start \in StartNodes
    /\ graph = {} /\ visited = {} /\ tree_edges = <<>> /\ frontier = <<>>
    /\ A = <<>> /\ S = {} /\ V_S = {} /\ graph_edges = <<>>
    /\ kind = "min" /\ elements = <<>> /\ IdleHeap
    /\ snaps = <<>>
    /\ pc = "begin"

DijkFrame == UNCHANGED <<kind, lastOp, callIndex, ret, algo, graph, start,
                         visited, tree_edges, frontier, nodes, weight>>

\* the precondition fails: the message is printed and the generator returns
DijkRejectStart ==
    /\ algo = "dijkstra" /\ pc = "begin"
    /\ start \notin nodes
    /\ pc' = "done"
    /\ UNCHANGED <<A, S, V_S, graph_edges, elements, snaps, err>>
    /\ DijkFrame

\* initialisation up to the first yield
DijkFirstYield ==
    /\ algo = "dijkstra" /\ pc = "begin"
    /\ start \in nodes
    /\ A' = InitialCosts(nodes, start)
    /\ S' = {start}
    /\ V_S' = {n \in nodes : n # start}
    /\ elements' = <<>>
    /\ graph_edges' = GraphEdges(weight, DOMAIN weight)
    /\ snaps' = Append(snaps, DijkstraSnapshot(S', V_S', graph_edges', A'))
    /\ pc' = "seed"
    /\ UNCHANGED err
    /\ DijkFrame

\* seed the heap with the edges from the start node
DijkSeed ==
    /\ algo = "dijkstra" /\ pc = "seed"
    /\ \E order \in Orders(DNeighbors(weight, start)) :
          elements' = InsertEdges(elements, weight, A, start, order)
    /\ pc' = "loop"
    /\ UNCHANGED <<A, S, V_S, graph_edges, snaps, err>>
    /\ DijkFrame

\* one iteration of "while len(V_S) > 0"
DijkIterate ==
    /\ algo = "dijkstra" /\ pc = "loop"
    /\ Cardinality(V_S) > 0
    /\ LET el == PopResult(elements) IN
       IF el = None
       THEN \* el.get on None
            /\ err' = "AttributeError"
            /\ pc' = "raised"
            /\ elements' = PopElements(kind, elements)
            /\ UNCHANGED <<A, S, V_S, graph_edges, snaps>>
       ELSE LET u == el[1].item[1]
                v == el[1].item[2]
                w == el[1].value
                popped == PopElements(kind, elements)
                o == Orient(S, u, v)
            IN
            IF o.stale
            THEN /\ elements' = popped
                 /\ pc' = "loop"
                 /\ UNCHANGED <<A, S, V_S, graph_edges, snaps, err>>
            ELSE /\ A' = [A EXCEPT ![o.new_node].parent = Some(o.parent),
                                   ![o.new_node].cost = Round3(w)]
                 /\ V_S' = V_S \ {o.new_node}
                 /\ S' = S \cup {o.new_node}
                 /\ \E order \in Orders(DNeighbors(weight, o.new_node) \ S') :
                       elements' = InsertEdges(popped, weight, A', o.new_node, order)
                 /\ snaps' = Append(snaps, DijkstraSnapshot(S', V_S', graph_edges, A'))
                 /\ pc' = "loop"
                 /\ UNCHANGED <<graph_edges, err>>
    /\ DijkFrame

\* the while test fails and the generator returns
DijkFinish ==
    /\ algo = "dijkstra" /\ pc = "loop"
    /\ Cardinality(V_S) = 0
    /\ pc' = "done"
    /\ UNCHANGED <<A, S, V_S, graph_edges, elements, snaps, err>>
    /\ DijkFrame

NextDijkstra ==
    \/ DijkRejectStart
    \/ DijkFirstYield
    \/ DijkSeed
    \/ DijkIterate
    \/ DijkFinish

SpecDijkstra == DijkstraInit /\ [][NextDijkstra]_vars

----------------------------------------------------------------------------
(* Properties of the heaps *)

HeapEntries == [item : Items, value : Values]
Count(els, e) == Cardinality({i \in DOMAIN els : els[i] = e})
ValuesOf(els) == {els[i].value : i \in DOMAIN els}
MinOf(vs) == CHOOSE v \in vs : \A w \in vs : v <= w
MaxOf(vs) == CHOOSE v \in vs : \A w \in vs : v >= w

\* C1: after any sequence of insert, pop and change_key at a valid index on an
\* initially empty heap, every non-root position i holds a value that is no
\* smaller (MinHeap) / no larger (MaxHeap) than the value at (i-1)//2.
C1_HeapOrdering ==
    pc = "heap" =>
        \A i \in 1..(Len(elements) - 1) :
            IF kind = "min"
            THEN elements[((i - 1) \div 2) + 1].value <= elements[i + 1].value
            ELSE elements[((i - 1) \div 2) + 1].value >= elements[i + 1].value

\* a change_key has just re-ordered a heap of three levels whose values differ
C1_Witness ==
    /\ pc = "heap" /\ lastOp = "change_key"
    /\ Len(elements) >= 4
    /\ elements[1].value # elements[2].value
    /\ elements[2].value # elements[4].value

\* C2: pop() on a non-empty heap reached by any sequence of insert / pop /
\* change_key returns an entry holding the minimum (MinHeap) / maximum
\* (MaxHeap) of the stored values and removes exactly that one entry.
C2_PopReturnsExtreme ==
    [][(lastOp' = "pop" /\ elements # <<>>) =>
         /\ ret' # None
         /\ ret'[1].value = IF kind = "min" THEN MinOf(ValuesOf(elements))
                                             ELSE MaxOf(ValuesOf(elements))
         /\ Len(elements') = Len(elements) - 1
         /\ \A e \in HeapEntries :
               Count(elements', e) = Count(elements, e) - (IF e = ret'[1] THEN 1 ELSE 0)
      ]_vars

\* C3: pop() and peek() on an empty heap return None, raise nothing and leave
\* the heap empty; peek() on a non-empty heap returns the entry pop() would
\* return and leaves the heap as it was.
C3_EmptyAndPeek ==
    [][/\ (lastOp' \in {"pop", "peek"} /\ elements = <<>>) =>
            (ret' = None /\ err' = "none" /\ elements' = <<>>)
       /\ (lastOp' = "peek" /\ elements # <<>>) =>
            (ret' = PopResult(elements) /\ err' = "none" /\ elements' = elements)
      ]_vars

\* peek() has just answered on a heap of several entries
C3_Witness ==
    /\ pc = "heap" /\ lastOp = "peek"
    /\ Len(elements) >= 2 /\ ret = Some(elements[1])
    /\ elements[1] # elements[Len(elements)]

\* C4: change_key(index, new_value) on an empty heap or with an index outside
\* 0..size-1 (negative, or >= size) changes nothing and raises nothing.
C4_InvalidIndexNoOp ==
    [][(lastOp' = "change_key"
          /\ (elements = <<>> \/ callIndex' < 0 \/ callIndex' >= Len(elements))) =>
         (elements' = elements /\ err' = "none")
      ]_vars

----------------------------------------------------------------------------
(* Properties of bfs and dfs *)

\* nodes within k hops of s
RECURSIVE Ball(_, _, _)
Ball(g, s, k) ==
    IF k = 0 THEN {s}
    ELSE LET b == Ball(g, s, k - 1)
         IN b \cup {m \in Nodes : \E n \in b : {n, m} \in g}

Reachable(g, s) == Ball(g, s, NumNodes)

\* true shortest hop-count from s to a reachable node n
HopCount(g, s, n) == CHOOSE k \in 0..NumNodes :
    n \in Ball(g, s, k) /\ (k = 0 \/ n \notin Ball(g, s, k - 1))

VisitedBefore(k) == IF k = 1 THEN {} ELSE snaps[k - 1].visited
NewlyVisited(k) == snaps[k].visited \ VisitedBefore(k)

\* C5: bfs visits nodes in non-decreasing order of their true hop-count from
\* start; no unreachable node is ever in a snapshot's visited set; and when the
\* generator is exhausted every reachable node was newly added to visited in
\* exactly one snapshot and is in the final visited set.
C5_BfsHopOrder ==
    algo = "bfs" =>
        /\ \A k \in DOMAIN snaps :
              /\ snaps[k].visited \subseteq Reachable(graph, start)
              /\ VisitedBefore(k) \subseteq snaps[k].visited
              /\ \A j \in 1..(k - 1) :
                    \A a \in NewlyVisited(j), b \in NewlyVisited(k) :
                        HopCount(graph, start, a) <= HopCount(graph, start, b)
        /\ pc = "done" =>
              /\ snaps # <<>>
              /\ snaps[Len(snaps)].visited = Reachable(graph, start)
              /\ \A n \in Reachable(graph, start) :
                    Cardinality({k \in DOMAIN snaps : n \in NewlyVisited(k)}) = 1

\* bfs has finished on a graph with a node two hops away, a node whose
\* neighbors were queued more than once, and an unreachable node
C5_Witness ==
    /\ algo = "bfs" /\ pc = "done"
    /\ Reachable(graph, start) # Nodes
    /\ \E n \in Reachable(graph, start) : HopCount(graph, start, n) = 2
    /\ \E n \in Nodes : Cardinality(Neighbors(graph, n) \cap Reachable(graph, start)) >= 2
                        /\ n # start /\ n \in Reachable(graph, start)

TreeChildren(te) == {te[i][2] : i \in DOMAIN te}

\* C6: the tree_edges of every dfs snapshot form a tree rooted at start: every
\* visited node other than start is the child of exactly one edge, start is
\* the child of none, every edge's parent is start or the child of an earlier
\* edge (so there is no cycle); when dfs is exhausted visited is the set of
\* nodes reachable from start.
C6_DfsTree ==
    algo = "dfs" =>
        /\ \A k \in DOMAIN snaps :
              LET te == snaps[k].tree_edges IN
              /\ \A i, j \in DOMAIN te : te[i][2] = te[j][2] => i = j
              /\ TreeChildren(te) = snaps[k].visited \ {start}
              /\ start \in snaps[k].visited
              /\ \A i \in DOMAIN te :
                    te[i][1] \in {start} \cup {te[j][2] : j \in 1..(i - 1)}
        /\ pc = "done" =>
              /\ snaps # <<>>
              /\ snaps[Len(snaps)].visited = Reachable(graph, start)

\* dfs has finished on a graph with a cycle through start and an unreachable node
C6_Witness ==
    /\ algo = "dfs" /\ pc = "done"
    /\ Len(snaps) >= 3
    /\ Reachable(graph, start) # Nodes
    /\ \E a, b \in Nodes : a # b /\ {start, a} \in graph
                           /\ {start, b} \in graph /\ {a, b} \in graph

\* C7: in bfs and in dfs, the neighbors of a node that are visited with that
\* node as their tree parent are visited in ascending order of identifier.
C7_AscendingSiblings ==
    algo \in {"bfs", "dfs"} =>
        \A k \in DOMAIN snaps :
            LET te == snaps[k].tree_edges IN
            \A i, j \in DOMAIN te :
                (i < j /\ te[i][1] = te[j][1]) => te[i][2] < te[j][2]

\* the same statement for dfs alone
C7_DfsAscendingSiblings == algo = "dfs" => C7_AscendingSiblings

----------------------------------------------------------------------------
(* Properties of dijkstra *)

\* larger than the weight of any simple path
Unreached == DNodes * (Scale + 1)

MinNat(xs) == CHOOSE x \in xs : \A y \in xs : x <= y

\* <<n, c>> for every walk of weight c from s to n that uses at most k edges
RECURSIVE Walks(_, _, _)
Walks(w, s, k) ==
    IF k = 0 THEN {<<s, 0>>}
    ELSE LET prev == Walks(w, s, k - 1)
         IN prev \cup {<<e[2], e[1][2] + w[{e[1][1], e[2]}]>> :
                          e \in {x \in prev \X DNodeSet : {x[1][1], x[2]} \in DOMAIN w}}

\* true shortest-path distance from s to each node, Unreached if there is no path
Distance(w, s) ==
    LET walks == Walks(w, s, DNodes - 1)
    IN [n \in DNodeSet |-> MinNat({Unreached} \cup {p[2] : p \in {q \in walks : q[1] = n}})]

Connected(ns, w, s) == \A n \in ns : Distance(w, s)[n] < Unreached

\* total weight of the path from n back along parent pointers, None unless it
\* reaches s within fuel steps over edges of the graph
RECURSIVE ParentPath(_, _, _, _, _)
ParentPath(w, tbl, s, n, fuel) ==
    IF n = s THEN Some(0)
    ELSE IF fuel = 0 \/ tbl[n].parent = None THEN None
    ELSE LET p == tbl[n].parent[1]
             up == ParentPath(w, tbl, s, p, fuel - 1)
         IN IF {p, n} \notin DOMAIN w \/ up = None THEN None
            ELSE Some(up[1] + w[{p, n}])

FinalCosts == snaps[Len(snaps)].cost

CostsAreDistances ==
    \A n \in nodes :
        /\ FinalCosts[n].cost = Distance(weight, start)[n]
        /\ ParentPath(weight, FinalCosts, start, n, DNodes) = Some(FinalCosts[n].cost)

OnGrid(w) == \A e \in DOMAIN w : w[e] % Scale = 0

\* C8 as stated: on a connected graph with non-negative weights, in the final
\* snapshot every node's cost is its true shortest-path distance from start
\* and its parent pointers lead to start along a path of that total weight.
C8_ExactDistances ==
    (algo = "dijkstra" /\ pc = "done" /\ start \in nodes /\ Connected(nodes, weight, start))
        => CostsAreDistances

\* C8 amended: the same, for graphs whose edge weights all have at most three
\* decimal places, the precision that round(w, 3) keeps.
C8_ExactDistancesOnGrid ==
    (algo = "dijkstra" /\ pc = "done" /\ start \in nodes /\ Connected(nodes, weight, start)
       /\ OnGrid(weight))
        => CostsAreDistances

\* dijkstra has finished on a connected on-grid graph in which some node's
\* shortest path is lighter than its direct edge from start
C8_Witness ==
    /\ algo = "dijkstra" /\ pc = "done" /\ start \in nodes
    /\ Connected(nodes, weight, start) /\ OnGrid(weight)
    /\ \E n \in DNeighbors(weight, start) :
          /\ Distance(weight, start)[n] < weight[{start, n}]
          /\ FinalCosts[n].parent # Some(start)

\* C9: a start node outside the graph makes dijkstra signal an error to the
\* caller and produce no snapshot.
C9_InvalidStartSignalled ==
    (algo = "dijkstra" /\ pc # "begin" /\ start \notin nodes)
        => (err # "none" /\ snaps = <<>>)

SeqRange(q) == {q[i] : i \in DOMAIN q}

\* C10: across successive snapshots explored only grows and unexplored only
\* shrinks, and the cost and parent of a node that is in explored in some
\* snapshot are the same in every later snapshot.
C10_Monotone ==
    algo = "dijkstra" =>
        \A k \in DOMAIN snaps : \A j \in 1..(k - 1) :
            /\ (j + 1 = k) =>
                  /\ SeqRange(snaps[j].explored) \subseteq SeqRange(snaps[k].explored)
                  /\ SeqRange(snaps[k].unexplored) \subseteq SeqRange(snaps[j].unexplored)
            /\ \A n \in SeqRange(snaps[j].explored) :
                  /\ snaps[k].cost[n].cost = snaps[j].cost[n].cost
                  /\ snaps[k].cost[n].parent = snaps[j].cost[n].parent

\* dijkstra has finished after three or more snapshots and some neighbor of
\* start was finalized through another node, its edge from start left in the heap
C10_Witness ==
    /\ algo = "dijkstra" /\ pc = "done"
    /\ Len(snaps) >= 3
    /\ \E n \in nodes :
          /\ n # start /\ {start, n} \in DOMAIN weight
          /\ FinalCosts[n].parent # Some(start)
          /\ \E i \in DOMAIN elements : elements[i].item = <<start, n>>

\* C11: for any graph and valid start node, also when some node cannot be
\* reached from start, the generator ends normally: no error reaches the caller.
C11_EndsNormally ==
    (algo = "dijkstra" /\ start \in nodes) => (err = "none" /\ pc # "raised")

\* the nodes joined to the nodes of seen by a path of edges of w
RECURSIVE JoinedTo(_, _)
JoinedTo(w, seen) ==
    LET more == seen \cup UNION {DNeighbors(w, n) : n \in seen}
    IN IF more = seen THEN seen ELSE JoinedTo(w, more)

\* C12: in every snapshot a node with no path to start is absent from
\* explored, present in unexplored, and has infinite cost and no parent.
C12_DisconnectedUntouched ==
    algo = "dijkstra" =>
        LET cut == nodes \ JoinedTo(weight, {start}) IN
        \A k \in DOMAIN snaps : \A n \in cut :
            /\ n \notin SeqRange(snaps[k].explored)
            /\ n \in SeqRange(snaps[k].unexplored)
            /\ snaps[k].cost[n].cost = Inf
            /\ snaps[k].cost[n].parent = None

\* three snapshots were yielded on a graph that has a node cut off from start
\* next to a node that has an explored neighbor
C12_Witness ==
    /\ algo = "dijkstra" /\ Len(snaps) >= 3
    /\ nodes \ JoinedTo(weight, {start}) # {}

\* the costs and parents of the first snapshot: zero at start, infinite
\* elsewhere, no parent anywhere
FirstCosts ==
    \A n \in nodes :
        /\ snaps[1].cost[n].cost = (IF n = start THEN 0 ELSE Inf)
        /\ snaps[1].cost[n].parent = None

\* C14 (as stated): the first snapshot has an empty explored sequence, an
\* unexplored sequence holding every node, cost zero at start, infinite cost
\* elsewhere and no parent anywhere.
C14_FirstSnapshotNothingExplored ==
    (algo = "dijkstra" /\ Len(snaps) >= 1) =>
        /\ snaps[1].explored = <<>>
        /\ SeqRange(snaps[1].unexplored) = nodes
        /\ FirstCosts

\* C14 (amended): the first snapshot has explored = [start], an unexplored
\* sequence holding every other node in sorted order, cost zero at start,
\* infinite cost elsewhere and no parent anywhere.
C14_FirstSnapshotStartExplored ==
    (algo = "dijkstra" /\ Len(snaps) >= 1) =>
        /\ snaps[1].explored = <<start>>
        /\ snaps[1].unexplored = Sorted(nodes \ {start})
        /\ FirstCosts

\* the first snapshot of a graph of three nodes or more has been yielded and
\* the heap has been seeded from it
C14_Witness ==
    /\ algo = "dijkstra" /\ pc = "loop" /\ Len(snaps) = 1
    /\ Cardinality(nodes) >= 3 /\ Len(elements) >= 2

\* the node that snapshot k shows explored and snapshot k - 1 does not
Finalized(k) ==
    CHOOSE n \in SeqRange(snaps[k].explored) :
        k > 1 => n \notin SeqRange(snaps[k - 1].explored)

\* C15: in the snapshot yielded after u is finalized, every unexplored
\* neighbor v of u has a recorded cost of at most cost[u] + weight(u, v); where
\* that candidate improved on the cost v had in the previous snapshot, v's
\* cost is the candidate and v's parent is u.
C15_RelaxationVisible ==
    algo = "dijkstra" =>
        \A k \in 2..Len(snaps) :
            LET u == Finalized(k)
                now == snaps[k].cost
                before == snaps[k - 1].cost
            IN \A v \in DNeighbors(weight, u) \ SeqRange(snaps[k].explored) :
                   LET cand == now[u].cost + EdgeWeight(weight, u, v) IN
                   /\ now[v].cost # Inf /\ now[v].cost <= cand
                   /\ (before[v].cost = Inf \/ cand < before[v].cost) =>
                          (now[v].cost = cand /\ now[v].parent = Some(u))

\* explored grows and unexplored shrinks by exactly one node per snapshot
SnapshotsGrowByOne ==
    \A k \in 2..Len(snaps) :
        LET e0 == SeqRange(snaps[k - 1].explored)
            e1 == SeqRange(snaps[k].explored)
            u0 == SeqRange(snaps[k - 1].unexplored)
            u1 == SeqRange(snaps[k].unexplored)
        IN /\ Len(snaps[k].explored) = Len(snaps[k - 1].explored) + 1
           /\ Len(snaps[k].unexplored) = Len(snaps[k - 1].unexplored) - 1
           /\ e0 \subseteq e1 /\ Cardinality(e1 \ e0) = 1
           /\ u1 \subseteq u0 /\ Cardinality(u0 \ u1) = 1

\* the loop is about to pop an edge whose two ends are both explored
StaleOnTop ==
    /\ algo = "dijkstra" /\ pc = "loop" /\ V_S # {} /\ elements # <<>>
    /\ elements[1].item[1] \in S /\ elements[1].item[2] \in S

\* C16: every snapshot after the first shows exactly one more explored node
\* and one fewer unexplored node than the one before it, and the pop of a
\* stale entry yields no snapshot and changes no cost, parent, explored or
\* unexplored membership.
C16_StepGranularity ==
    [][/\ algo' = "dijkstra" => SnapshotsGrowByOne'
       /\ StaleOnTop => (snaps' = snaps /\ A' = A /\ S' = S /\ V_S' = V_S)]_vars

\* entries pushed so far: the seeding of start's edges, then the edges of each
\* finalized node to its unexplored neighbors
RECURSIVE Pushed(_)
Pushed(k) ==
    IF k = 0 THEN 0
    ELSE Pushed(k - 1)
         + Cardinality(DNeighbors(weight, Finalized(k)) \ SeqRange(snaps[k].explored))

\* pops that finalized nothing: every pop either yields a snapshot or is stale
StalePops == Pushed(Len(snaps)) - Len(elements) - (Len(snaps) - 1)

\* a stale entry has been popped after three snapshots, with a node still unexplored
C16_Witness ==
    /\ algo = "dijkstra" /\ pc = "loop" /\ err = "none"
    /\ Len(snaps) >= 3 /\ V_S # {}
    /\ StalePops >= 1

\* the index of the first snapshot that shows n explored
FirstSeen(n) ==
    CHOOSE k \in DOMAIN snaps :
        /\ n \in SeqRange(snaps[k].explored)
        /\ \A j \in 1..(k - 1) : n \notin SeqRange(snaps[j].explored)

\* C19: in every snapshot each explored node v other than start has a parent p
\* that is adjacent to v and explored in a strictly earlier snapshot, with
\* cost[v] = cost[p] + weight(p, v) rounded to three decimals; start has cost
\* zero and no parent.
C19_ParentConsistency ==
    algo = "dijkstra" =>
        \A k \in DOMAIN snaps :
            LET tbl == snaps[k].cost IN
            /\ tbl[start].cost = 0 /\ tbl[start].parent = None
            /\ \A v \in SeqRange(snaps[k].explored) \ {start} :
                   /\ tbl[v].parent # None
                   /\ LET p == tbl[v].parent[1] IN
                      /\ p \in DNeighbors(weight, v)
                      /\ p \in SeqRange(snaps[k].explored)
                      /\ FirstSeen(p) < FirstSeen(v)
                      /\ tbl[v].cost = Round3(tbl[p].cost + EdgeWeight(weight, p, v))

\* a finished run in which some node was reached through a parent other than
\* start, along an edge whose weight is off the three-decimal grid
C19_Witness ==
    /\ algo = "dijkstra" /\ pc = "done" /\ Len(snaps) >= 3
    /\ \E v \in nodes \ {start} :
           /\ FinalCosts[v].parent # None
           /\ FinalCosts[v].parent[1] # start
           /\ EdgeWeight(weight, FinalCosts[v].parent[1], v) % Scale # 0

\* C20: nodes are finalized in non-decreasing order of their final cost.
C20_FinalizedByCost ==
    algo = "dijkstra" =>
        \A k \in 2..Len(snaps) :
            FinalCosts[Finalized(k - 1)].cost <= FinalCosts[Finalized(k)].cost

\* a finished run that finalized a costlier node after a cheaper one, the
\* cheaper one not being start
C20_Witness ==
    /\ algo = "dijkstra" /\ pc = "done" /\ Len(snaps) >= 3
    /\ \E k \in 3..Len(snaps) :
           FinalCosts[Finalized(k - 1)].cost < FinalCosts[Finalized(k)].cost

\* C17: the first snapshot of bfs and of dfs is ({start}, []); every later
\* snapshot has the previous visited set plus exactly one new node, and the
\* previous tree_edges with exactly one edge (parent, new node) appended, the
\* parent being an already visited neighbor of the new node.
C17_TraversalGrowth ==
    algo \in {"bfs", "dfs"} =>
        \A k \in DOMAIN snaps :
            IF k = 1
            THEN snaps[1].visited = {start} /\ snaps[1].tree_edges = <<>>
            ELSE \E n \in Nodes \ snaps[k - 1].visited :
                 \E p \in snaps[k - 1].visited :
                     /\ snaps[k].visited = snaps[k - 1].visited \cup {n}
                     /\ snaps[k].tree_edges = Append(snaps[k - 1].tree_edges, <<p, n>>)
                     /\ p \in Neighbors(graph, n)

\* a traversal has yielded four snapshots after skipping an entry whose node
\* was already visited (the graph has a cycle through visited nodes)
C17_Witness ==
    /\ algo \in {"bfs", "dfs"} /\ pc = "done" /\ Len(snaps) = NumNodes
    /\ Cardinality(graph) >= NumNodes

\* 1 if e is the pair f, else 0
One(e, f) == IF e = f THEN 1 ELSE 0

\* the multiset stored in bigger is the multiset stored in smaller plus the pair added
AddsPair(smaller, bigger, added) ==
    \A e \in HeapEntries : Count(bigger, e) = Count(smaller, e) + One(e, added)

\* C18: the heap stores exactly the multiset of (item, value) pairs given to
\* it: insert adds the one given pair, pop on a non-empty heap removes exactly
\* the pair it returns, change_key at a valid index replaces only the value of
\* the entry at that index, and size() is the number of pairs stored.
C18_ContentConserved ==
    [][/\ lastOp' = "insert" =>
              \A item \in Items, value \in Values :
                  Insert(item, value) =>
                      /\ AddsPair(elements, elements', [item |-> item, value |-> value])
                      /\ Len(elements') = Len(elements) + 1
       /\ (lastOp' = "pop" /\ elements # <<>> /\ Pop) =>
              /\ ret' # None
              /\ AddsPair(elements', elements, ret'[1])
              /\ Len(elements') = Len(elements) - 1
       /\ (lastOp' = "change_key" /\ InRange(elements, callIndex') /\ callIndex' >= 0) =>
              LET old == elements[callIndex' + 1] IN
              /\ err' = "none"
              /\ Len(elements') = Len(elements)
              /\ \E new_val \in Values :
                     \A e \in HeapEntries :
                         Count(elements', e) + One(e, old)
                             = Count(elements, e)
                                   + One(e, [item |-> old.item, value |-> new_val])
      ]_vars

\* change_key has just rewritten the value of an entry below the root of a
\* heap of three or more entries that holds both items, and the entry moved
C18_Witness ==
    /\ pc = "heap" /\ lastOp = "change_key" /\ err = "none"
    /\ callIndex >= 1 /\ Len(elements) >= 3
    /\ {elements[i].item : i \in DOMAIN elements} = Items
    /\ elements[1].item # elements[callIndex + 1].item

----------------------------------------------------------------------------
(* The caller of a generator: it holds the tuples yielded so far and may
   write to the objects in them while the generator is suspended. *)

\* the mutable objects of a yielded tuple
Components(a) ==
    IF a = "dijkstra" THEN {"explored", "unexplored", "edges", "cost", "record"}
    ELSE {"visited", "tree_edges"}

\* the yielded tuples whose component c is the same object as component c of
\* tuple j: dijkstra puts the one list graph_edges into every tuple it yields;
\* set(visited), list(tree_edges), sorted(S), sorted(V_S) and copy.deepcopy(A)
\* build a new object for each tuple
SameObject(j, c) == IF c = "edges" THEN DOMAIN snaps ELSE {j}

\* dijkstra's local graph_edges is the object found in the tuples
IsLiveObject(c) == c = "edges"

\* a tuple after its component c is emptied (for "record": after the record
\* of the start node in its cost table gets cost inf)
Emptied(snap, c) ==
    CASE c = "visited"    -> [snap EXCEPT !.visited = {}]
      [] c = "tree_edges" -> [snap EXCEPT !.tree_edges = <<>>]
      [] c = "explored"   -> [snap EXCEPT !.explored = <<>>]
      [] c = "unexplored" -> [snap EXCEPT !.unexplored = <<>>]
      [] c = "edges"      -> [snap EXCEPT !.edges = <<>>]
      [] c = "cost"       -> [snap EXCEPT !.cost = <<>>]
      [] c = "record"     -> [snap EXCEPT !.cost[start].cost = Inf]

\* the caller empties component c of the j-th tuple it received; it does so
\* once in a run
ConsumerClears(j, c) ==
    /\ algo \in {"bfs", "dfs", "dijkstra"} /\ pc \in {"loop", "seed", "done"}
    /\ lastOp = "init"
    /\ j \in DOMAIN snaps /\ c \in Components(algo)
    /\ snaps' = [k \in DOMAIN snaps |->
                    IF k \in SameObject(j, c) THEN Emptied(snaps[k], c) ELSE snaps[k]]
    /\ graph_edges' = IF IsLiveObject(c) THEN <<>> ELSE graph_edges
    /\ lastOp' = "clear" /\ callIndex' = j
    /\ UNCHANGED <<kind, elements, ret, err, algo, graph, start, visited, tree_edges,
                   frontier, pc, nodes, weight, A, S, V_S>>

ConsumerStep == \E j \in DOMAIN snaps : \E c \in Components(algo) : ConsumerClears(j, c)

GeneratorInit == TravInit \/ DijkstraInit

NextConsumer ==
    \/ NextTraversal
    \/ NextDijkstra
    \/ ConsumerStep

SpecConsumer == GeneratorInit /\ [][NextConsumer]_vars

\* the locals of the suspended generator
LiveState == <<elements, visited, tree_edges, frontier, A, S, V_S, graph_edges, pc>>

\* C13: a write to a component of a yielded snapshot reaches neither the
\* engine's live state nor any other yielded snapshot: it changes that one
\* snapshot only.
C13_SnapshotsIndependent ==
    [][\A j \in DOMAIN snaps : \A c \in Components(algo) :
           ConsumerClears(j, c) =>
               /\ LiveState' = LiveState
               /\ \A k \in DOMAIN snaps \ {j} : snaps'[k] = snaps[k]]_vars

\* the index of the first bfs/dfs snapshot whose visited set holds n
FirstVisited(n) ==
    CHOOSE k \in DOMAIN snaps :
        /\ n \in snaps[k].visited
        /\ \A j \in 1..(k - 1) : n \notin snaps[j].visited

\* C21: in every snapshot of bfs or dfs, every pair (parent, child) of
\* tree_edges is an edge of the input graph, both ends are in visited, the
\* parent first shows as visited in an earlier snapshot than the child, and
\* len(tree_edges) = len(visited) - 1.
C21_TreeEdgesValid ==
    algo \in {"bfs", "dfs"} =>
        \A k \in DOMAIN snaps :
            LET te == snaps[k].tree_edges
                vis == snaps[k].visited
            IN /\ Len(te) = Cardinality(vis) - 1
               /\ \A i \in DOMAIN te :
                      /\ {te[i][1], te[i][2]} \in graph
                      /\ te[i][1] # te[i][2]
                      /\ te[i][1] \in vis /\ te[i][2] \in vis
                      /\ FirstVisited(te[i][1]) < FirstVisited(te[i][2])

\* a snapshot holds a tree edge whose parent is not start, while the graph
\* also has an edge between two visited nodes that is not a tree edge in
\* either direction
C21_Witness ==
    /\ algo \in {"bfs", "dfs"} /\ Len(snaps) >= 3
    /\ LET te == snaps[Len(snaps)].tree_edges
           vis == snaps[Len(snaps)].visited
       IN /\ \E i \in DOMAIN te : te[i][1] # start
          /\ \E a, b \in vis :
                 /\ {a, b} \in graph /\ a # b
                 /\ \A i \in DOMAIN te : {te[i][1], te[i][2]} # {a, b}

====
